---------------------------- MODULE Spec2Model ----------------------------
(***************************************************************************)
(* Model of crypto-tracker/src/App.jsx: the CoinGecko client               *)
(* (coinGeckoAPI), the useCoins hook, the filteredAndSortedCoins           *)
(* derivation of CryptocurrencyTracker and the chart state of CoinDetail.  *)
(*                                                                         *)
(* JavaScript values are modelled as follows.                              *)
(*   string     a sequence of one-character strings                        *)
(*   object     a record; a property that is undefined is a field that is  *)
(*              absent from the record (k \notin DOMAIN r)                 *)
(*   null       the record Null                                            *)
(*   array      a sequence                                                 *)
(* Of a Coin only the properties the logic reads are kept (id, symbol,     *)
(* name, image, price_change_percentage_24h); current_price and market_cap *)
(* are only formatted for display.                                         *)
(***************************************************************************)
EXTENDS Integers, Sequences, FiniteSets

VARIABLES
    coins,          \* useCoins: useState([])               App.jsx:83
    vanryData,      \* useCoins: useState(null)             App.jsx:84
    loading,        \* useCoins: useState(true)             App.jsx:85
    fetchPhase,     \* position of useCoins' effect / fetchData  App.jsx:87-101
    coinsPromise,   \* promise of coinGeckoAPI.fetchCoins()      App.jsx:91
    vanryPromise,   \* promise of coinGeckoAPI.fetchVanryData()  App.jsx:92
    searchTerm,     \* CryptocurrencyTracker: useState('')   App.jsx:325
    filter,         \* CryptocurrencyTracker: useState('all') App.jsx:326
    selectedCoin,   \* CryptocurrencyTracker: useState(null) App.jsx:327
    chartData,      \* CoinDetail: useState([])              App.jsx:247
    detailLoading,  \* CoinDetail: useState(true)            App.jsx:248
    pendingCharts   \* fetchChartData calls in flight, per coin id  App.jsx:253

vars == <<coins, vanryData, loading, fetchPhase, coinsPromise, vanryPromise,
          searchTerm, filter, selectedCoin, chartData, detailLoading,
          pendingCharts>>

(***************************************************************************)
(* Bounds of the model.                                                    *)
(***************************************************************************)
\* longest generic coin list the pure derivation is checked on
MaxCoins == 3
\* longest search term
MaxTermLen == 2
\* most fetchChartData calls in flight at one time
MaxPending == 2

Null == [null |-> TRUE]

PinnedId == "vanar-chain"

Filters == {"all", "gainers", "losers"}

(***************************************************************************)
(* Strings.                                                                *)
(***************************************************************************)
ToLowerChar(c) ==
    CASE c = "B" -> "b"
      [] c = "E" -> "e"
      [] c = "S" -> "s"
      [] c = "V" -> "v"
      [] c = "A" -> "a"
      [] OTHER -> c

toLowerCase(s) == [i \in 1..Len(s) |-> ToLowerChar(s[i])]

\* String.prototype.includes: sub occurs in str as a contiguous substring
includes(str, sub) ==
    \E i \in 1..(Len(str) - Len(sub) + 1) :
        SubSeq(str, i, i + Len(sub) - 1) = sub

Has(obj, key) == key \in DOMAIN obj

(***************************************************************************)
(* The remote market-data service: the responses the three requests can    *)
(* meet.  kind "transport": fetch rejects; kind "status": response.ok is   *)
(* false; kind "ok": a success status with the JSON body `body`.           *)
(***************************************************************************)
TransportFailure == [kind |-> "transport"]
StatusFailure == [kind |-> "status"]
Ok(body) == [kind |-> "ok", body |-> body]

MarketCoin(id, symbol, name, pct) ==
    [id |-> id, symbol |-> symbol, name |-> name, image |-> "thumb",
     price_change_percentage_24h |-> pct]

\* well-formed records of GET /coins/markets
MarketCatalogue ==
    { MarketCoin("bitcoin", <<"b">>, <<"B", "a">>, 5),
      MarketCoin("ethereum", <<"e">>, <<"E", "b">>, -3),
      MarketCoin("solana", <<"s">>, <<"S", "v">>, 2),
      MarketCoin("stable", <<"a">>, <<"A">>, 0),
      MarketCoin(PinnedId, <<"v">>, <<"V", "a">>, -1),
      MarketCoin(PinnedId, <<"v">>, <<"V", "a">>, 5) }

\* a record of GET /coins/markets whose symbol is missing (ShapeFailure)
NoSymbolCoin ==
    [id |-> "solana", name |-> <<"S", "v">>, image |-> "thumb",
     price_change_percentage_24h |-> 2]

CoinIds == {c.id : c \in MarketCatalogue}

UniqueIds(list) ==
    \A i, j \in 1..Len(list) : list[i].id = list[j].id => i = j

RECURSIVE SeqsUpTo(_, _)
SeqsUpTo(S, n) ==
    IF n = 0 THEN {<<>>}
    ELSE LET shorter == SeqsUpTo(S, n - 1)
         IN  shorter \cup {Append(s, x) : s \in {t \in shorter : Len(t) = n - 1}, x \in S}

\* every generic coin list of at most n well-formed coins with unique ids
CoinLists(n) == {l \in SeqsUpTo(MarketCatalogue, n) : UniqueIds(l)}

VanarBody(pct) ==
    [id |-> PinnedId, symbol |-> <<"v">>, name |-> <<"V", "a">>,
     image |-> [large |-> "large"],
     market_data |-> [price_change_percentage_24h |-> pct]]

\* well-formed bodies of GET /coins/vanar-chain
VanryBodies == {VanarBody(5), VanarBody(-1), VanarBody(0)}

\* a success response whose JSON carries none of the expected fields
ErrorBody == [error |-> "unexpected"]

\* characters typed into the search box
SearchAlphabet == {"b", "V", "a"}

(***************************************************************************)
(* coinGeckoAPI.  Each operator gives the state in which the async         *)
(* function's promise settles for a response of the service.               *)
(***************************************************************************)
Fulfilled(value) == [state |-> "fulfilled", value |-> value]
Pending == [state |-> "pending"]

\* lines 28-39
fetchCoins(resp) ==
    IF resp.kind = "ok" THEN Fulfilled(resp.body)   \* return await response.json()
    ELSE Fulfilled(<<>>)                            \* catch: return []

\* the object literal of fetchVanryData: a property whose value is undefined
\* is absent from the record
VanryProjection(data) ==
    LET plain == {k \in {"id", "symbol", "name"} : Has(data, k)}
        img == IF Has(data, "image") /\ Has(data.image, "large")
               THEN {"image"} ELSE {}
        pct == IF Has(data, "market_data")
                  /\ Has(data.market_data, "price_change_percentage_24h")
               THEN {"price_change_percentage_24h"} ELSE {}
    IN  [k \in plain \cup img \cup pct |->
            CASE k = "image" -> data.image.large
              [] k = "price_change_percentage_24h" ->
                    data.market_data.price_change_percentage_24h
              [] OTHER -> data[k]]

Rejected == [state |-> "rejected"]

\* fetchVanryData without its try/catch: a failure rejects the promise
fetchVanryDataNoCatch(resp) ==
    IF resp.kind = "ok" /\ resp.body # Null
    THEN Fulfilled(VanryProjection(resp.body))
    ELSE Rejected

\* lines 41-59
fetchVanryData(resp) ==
    IF resp.kind = "ok" /\ resp.body # Null
    THEN Fulfilled(VanryProjection(resp.body))
    ELSE Fulfilled(Null)                            \* catch: return null

\* toLocaleDateString of a timestamp: the samples of one day share a label
toLocaleDateString(timestamp) == timestamp \div 2

PricePoint(sample) ==
    [date |-> toLocaleDateString(sample[1]), price |-> sample[2],
     timestamp |-> sample[1]]

\* lines 61-78
fetchChartData(resp) ==
    IF resp.kind = "ok" /\ resp.body # Null /\ Has(resp.body, "prices")
    THEN Fulfilled([i \in 1..Len(resp.body.prices) |->
                        PricePoint(resp.body.prices[i])])
    ELSE Fulfilled(<<>>)                            \* catch: return []

(***************************************************************************)
(* filteredAndSortedCoins (App.jsx:329-361).                               *)
(***************************************************************************)
\* coin.name.toLowerCase().includes(t) || coin.symbol.toLowerCase().includes(t)
\* reads name first and symbol only when the name does not match; reading
\* toLowerCase of an undefined property throws a TypeError.
NameMatches(coin, term) ==
    Has(coin, "name") /\ includes(toLowerCase(coin.name), toLowerCase(term))

SymbolMatches(coin, term) ==
    Has(coin, "symbol") /\ includes(toLowerCase(coin.symbol), toLowerCase(term))

MatchesSearch(coin, term) == NameMatches(coin, term) \/ SymbolMatches(coin, term)

SearchThrows(coin, term) ==
    \/ ~Has(coin, "name")
    \/ ~NameMatches(coin, term) /\ ~Has(coin, "symbol")

\* undefined > 0 and undefined < 0 are both false
IsGainer(coin) ==
    Has(coin, "price_change_percentage_24h") /\ coin.price_change_percentage_24h > 0

IsLoser(coin) ==
    Has(coin, "price_change_percentage_24h") /\ coin.price_change_percentage_24h < 0

RECURSIVE FilterBySearch(_, _)
\* lines 330-333: coins.filter(...) with the search predicate
FilterBySearch(list, term) ==
    IF list = <<>> THEN <<>>
    ELSE LET rest == FilterBySearch(Tail(list), term)
         IN  IF MatchesSearch(Head(list), term) THEN <<Head(list)>> \o rest ELSE rest

\* the comparators of lines 338 and 342, on coins that passed the direction
\* filter (so the field is a number)
CompareGainers(a, b) == b.price_change_percentage_24h - a.price_change_percentage_24h
CompareLosers(a, b) == a.price_change_percentage_24h - b.price_change_percentage_24h

Compare(a, b, f) == IF f = "gainers" THEN CompareGainers(a, b) ELSE CompareLosers(a, b)

RECURSIVE InsertSorted(_, _, _)
InsertSorted(x, sorted, f) ==
    IF sorted = <<>> THEN <<x>>
    ELSE IF Compare(Head(sorted), x, f) <= 0
         THEN <<Head(sorted)>> \o InsertSorted(x, Tail(sorted), f)
         ELSE <<x>> \o sorted

RECURSIVE Sort(_, _)
\* Array.prototype.sort: stable, by the comparator of filter f
Sort(list, f) ==
    IF list = <<>> THEN <<>>
    ELSE InsertSorted(list[Len(list)], Sort(SubSeq(list, 1, Len(list) - 1), f), f)

\* the sort with the comparator of the other direction
SortAgainst(list, f) == Sort(list, IF f = "gainers" THEN "losers" ELSE "gainers")

\* the switch with a sort applied to filter "all" as well
ApplyFilterSortsAll(list, f) ==
    CASE f = "gainers" -> Sort(SelectSeq(list, IsGainer), f)
      [] f = "losers" -> Sort(SelectSeq(list, IsLoser), f)
      [] OTHER -> Sort(list, "gainers")

\* the switch with the two comparators exchanged
ApplyFilterWrongOrder(list, f) ==
    CASE f = "gainers" -> SortAgainst(SelectSeq(list, IsGainer), f)
      [] f = "losers" -> SortAgainst(SelectSeq(list, IsLoser), f)
      [] OTHER -> list

\* the switch of lines 335-344
ApplyFilter(list, f) ==
    CASE f = "gainers" -> Sort(SelectSeq(list, IsGainer), f)
      [] f = "losers" -> Sort(SelectSeq(list, IsLoser), f)
      [] OTHER -> list

\* the pinned record taken to match every search term
vanryMatchesSearchAlways(vanry, term) == TRUE

\* lines 347-348
vanryMatchesSearch(vanry, term) == MatchesSearch(vanry, term)

\* the pinned record taken to pass every filter
vanryMatchesFilterAlways(vanry, f) == TRUE

\* lines 350-352
vanryMatchesFilter(vanry, f) ==
    \/ f = "all"
    \/ f = "gainers" /\ IsGainer(vanry)
    \/ f = "losers" /\ IsLoser(vanry)

NotPinnedId(coin) == coin.id # PinnedId

\* line 355 left out: the generic coin with the pinned id is kept
KeepPinnedId(list) == list

\* line 355: filtered.filter(coin => coin.id !== 'vanar-chain')
WithoutPinnedId(list) == SelectSeq(list, NotPinnedId)

\* the value of the useMemo when no property read throws
Derive(cs, vanry, term, f) ==
    LET filtered == ApplyFilter(FilterBySearch(cs, term), f)
    IN  IF vanry # Null /\ vanryMatchesSearch(vanry, term)
                        /\ vanryMatchesFilter(vanry, f)
        THEN <<vanry>> \o WithoutPinnedId(filtered)
        ELSE filtered

\* the useMemo throws a TypeError: some coin of the list, or the pinned
\* record, is read through an undefined name or symbol
DeriveThrows(cs, vanry, term) ==
    \/ \E i \in 1..Len(cs) : SearchThrows(cs[i], term)
    \/ vanry # Null /\ SearchThrows(vanry, term)

filteredAndSortedCoins == Derive(coins, vanryData, searchTerm, filter)

RenderThrows == DeriveThrows(coins, vanryData, searchTerm)

(***************************************************************************)
(* Responses the running application can meet.                             *)
(***************************************************************************)
Bitcoin == MarketCoin("bitcoin", <<"b">>, <<"B", "a">>, 5)
Ethereum == MarketCoin("ethereum", <<"e">>, <<"E", "b">>, -3)
VanarListed == MarketCoin(PinnedId, <<"v">>, <<"V", "a">>, -1)

\* bodies of GET /coins/markets served to the running application
ServedLists ==
    { <<Bitcoin, Ethereum>>,
      <<Ethereum, VanarListed>>,
      <<Bitcoin, NoSymbolCoin>> }

MarketsResponses ==
    {TransportFailure, StatusFailure} \cup {Ok(b) : b \in ServedLists}

VanryResponses ==
    {TransportFailure, StatusFailure, Ok(Null), Ok(ErrorBody)}
        \cup {Ok(b) : b \in VanryBodies}

PriceOf(coinId) ==
    CASE coinId = "bitcoin" -> 10
      [] coinId = "ethereum" -> 20
      [] coinId = "solana" -> 30
      [] coinId = "stable" -> 40
      [] OTHER -> 50

\* body of GET /coins/{id}/market_chart: [[timestampMs, price], ...]
ChartBody(coinId) ==
    [prices |-> << <<2, PriceOf(coinId)>>, <<3, PriceOf(coinId) + 1>> >>]

ChartResponses(coinId) ==
    {TransportFailure, StatusFailure, Ok(ErrorBody), Ok(ChartBody(coinId))}

\* the chart of coinId when its request succeeds
ChartOf(coinId) == fetchChartData(Ok(ChartBody(coinId))).value

(***************************************************************************)
(* The application.                                                        *)
(***************************************************************************)
NoCharts == [id \in CoinIds |-> 0]

InFlight == LET RECURSIVE Sum(_)
                Sum(S) == IF S = {} THEN 0
                          ELSE LET id == CHOOSE x \in S : TRUE
                               IN  pendingCharts[id] + Sum(S \ {id})
            IN  Sum(CoinIds)

\* state after the first render, before the mount effect of useCoins runs
Init ==
    /\ coins = <<>>
    /\ vanryData = Null
    /\ loading = TRUE
    /\ fetchPhase = "mount"
    /\ coinsPromise = Pending
    /\ vanryPromise = Pending
    /\ searchTerm = <<>>
    /\ filter = "all"
    /\ selectedCoin = Null
    /\ chartData = <<>>
    /\ detailLoading = TRUE
    /\ pendingCharts = NoCharts

\* lines 87-93, 100: the effect calls fetchData, which sets loading and
\* issues both requests before suspending at the await
Mount ==
    /\ fetchPhase = "mount"
    /\ loading' = TRUE
    /\ fetchPhase' = "awaiting"
    /\ UNCHANGED <<coins, vanryData, coinsPromise, vanryPromise, searchTerm,
                   filter, selectedCoin, chartData, detailLoading, pendingCharts>>

\* the request of fetchCoins completes
SettleFetchCoins ==
    /\ fetchPhase = "awaiting"
    /\ coinsPromise = Pending
    /\ \E resp \in MarketsResponses : coinsPromise' = fetchCoins(resp)
    /\ UNCHANGED <<coins, vanryData, loading, fetchPhase, vanryPromise,
                   searchTerm, filter, selectedCoin, chartData, detailLoading,
                   pendingCharts>>

\* the request of fetchVanryData completes
SettleFetchVanry ==
    /\ fetchPhase = "awaiting"
    /\ vanryPromise = Pending
    /\ \E resp \in VanryResponses : vanryPromise' = fetchVanryData(resp)
    /\ UNCHANGED <<coins, vanryData, loading, fetchPhase, coinsPromise,
                   searchTerm, filter, selectedCoin, chartData, detailLoading,
                   pendingCharts>>

\* Promise.any / Promise.race in place of Promise.all
PromiseAny(promises) ==
    \E i \in 1..Len(promises) : promises[i].state = "fulfilled"

\* Promise.all fulfils once every promise has fulfilled
PromiseAll(promises) ==
    \A i \in 1..Len(promises) : promises[i].state = "fulfilled"

ValueOr(promise, default) ==
    IF promise.state = "fulfilled" THEN promise.value ELSE default

\* lines 90-97: fetchData resumes after the await and applies both results
FetchDataResume ==
    /\ fetchPhase = "awaiting"
    /\ PromiseAll(<<coinsPromise, vanryPromise>>)
    /\ coins' = ValueOr(coinsPromise, <<>>)
    /\ vanryData' = ValueOr(vanryPromise, Null)
    /\ loading' = FALSE
    /\ fetchPhase' = "done"
    /\ UNCHANGED <<coinsPromise, vanryPromise, searchTerm, filter,
                   selectedCoin, chartData, detailLoading, pendingCharts>>

\* the tracker's controls, cards and CoinDetail are rendered: past the
\* loading screen (line 363) and the useMemo did not throw
Rendered == ~loading /\ ~RenderThrows

\* line 223: onChange of the search box, one keystroke at a time: a
\* character is typed at the end or the last character is deleted
SetSearchTerm ==
    /\ Rendered
    /\ \/ /\ Len(searchTerm) < MaxTermLen
          /\ \E c \in SearchAlphabet : searchTerm' = Append(searchTerm, c)
       \/ /\ searchTerm # <<>>
          /\ searchTerm' = SubSeq(searchTerm, 1, Len(searchTerm) - 1)
    /\ UNCHANGED <<coins, vanryData, loading, fetchPhase, coinsPromise,
                   vanryPromise, filter, selectedCoin, chartData,
                   detailLoading, pendingCharts>>

\* line 232: onClick of a filter button
SetFilter ==
    /\ Rendered
    /\ \E f \in Filters : f # filter /\ filter' = f
    /\ UNCHANGED <<coins, vanryData, loading, fetchPhase, coinsPromise,
                   vanryPromise, searchTerm, selectedCoin, chartData,
                   detailLoading, pendingCharts>>

\* line 410: onClick of a card, then the effect of CoinDetail (lines
\* 250-259) for the changed coin: setLoading(true) and the request.  While
\* a detail view is open the backdrop of Modal (lines 113-114) covers the
\* cards, so a card is clicked only with no coin selected.
SelectCoin ==
    /\ Rendered
    /\ selectedCoin = Null
    /\ InFlight < MaxPending
    /\ \E i \in 1..Len(filteredAndSortedCoins) :
        LET coin == filteredAndSortedCoins[i]
        IN  /\ selectedCoin' = coin
            /\ detailLoading' = TRUE
            /\ pendingCharts' = [pendingCharts EXCEPT ![coin.id] = @ + 1]
    /\ UNCHANGED <<coins, vanryData, loading, fetchPhase, coinsPromise,
                   vanryPromise, searchTerm, filter, chartData>>

\* line 432: onClose; the effect runs with coin = null and does nothing
CloseDetail ==
    /\ Rendered
    /\ selectedCoin # Null
    /\ selectedCoin' = Null
    /\ UNCHANGED <<coins, vanryData, loading, fetchPhase, coinsPromise,
                   vanryPromise, searchTerm, filter, chartData, detailLoading,
                   pendingCharts>>

\* lines 253-255: a fetchChartData call settles and fetchChart resumes;
\* after a render has thrown the component is unmounted and the setters
\* have no effect
ResolveChart ==
    \E coinId \in CoinIds :
        /\ pendingCharts[coinId] > 0
        /\ pendingCharts' = [pendingCharts EXCEPT ![coinId] = @ - 1]
        /\ \E resp \in ChartResponses(coinId) :
            IF RenderThrows
            THEN UNCHANGED <<chartData, detailLoading>>
            ELSE /\ chartData' = fetchChartData(resp).value
                 /\ detailLoading' = FALSE
        /\ UNCHANGED <<coins, vanryData, loading, fetchPhase, coinsPromise,
                       vanryPromise, searchTerm, filter, selectedCoin>>

Next ==
    \/ Mount
    \/ SettleFetchCoins
    \/ SettleFetchVanry
    \/ FetchDataResume
    \/ SetSearchTerm
    \/ SetFilter
    \/ SelectCoin
    \/ CloseDetail
    \/ ResolveChart

Spec == Init /\ [][Next]_vars

\* each request eventually settles, and a continuation whose promise has
\* settled is run by the event loop
LiveSpec ==
    /\ Spec
    /\ WF_vars(Mount)
    /\ WF_vars(SettleFetchCoins)
    /\ WF_vars(SettleFetchVanry)
    /\ WF_vars(FetchDataResume)

(***************************************************************************)
(* The derivation alone: every generic list and every pinned value the     *)
(* client can hand over from well-formed responses, under every search     *)
(* term and filter.                                                        *)
(***************************************************************************)
PinnedValues ==
    {fetchVanryData(resp).value :
        resp \in {TransportFailure} \cup {Ok(b) : b \in VanryBodies}}

InitMerge ==
    /\ coins \in CoinLists(MaxCoins)
    /\ vanryData \in PinnedValues
    /\ loading = FALSE
    /\ fetchPhase = "done"
    /\ coinsPromise = Fulfilled(coins)
    /\ vanryPromise = Fulfilled(vanryData)
    /\ searchTerm = <<>>
    /\ filter = "all"
    /\ selectedCoin = Null
    /\ chartData = <<>>
    /\ detailLoading = TRUE
    /\ pendingCharts = NoCharts

NextMerge == SetSearchTerm \/ SetFilter

SpecMerge == InitMerge /\ [][NextMerge]_vars

(***************************************************************************)
(* Properties.                                                             *)
(***************************************************************************)
Shown == filteredAndSortedCoins

Change(coin) == coin.price_change_percentage_24h

\* sub occurs in str when letters are compared without regard to case
ContainsIgnoringCase(str, sub) ==
    \E start \in 0..(Len(str) - Len(sub)) :
        \A k \in 1..Len(sub) : ToLowerChar(str[start + k]) = ToLowerChar(sub[k])

\* the pinned record was fetched and itself passes the search and the filter
PinnedQualifies ==
    /\ vanryData # Null
    /\ \/ ContainsIgnoringCase(vanryData.name, searchTerm)
       \/ ContainsIgnoringCase(vanryData.symbol, searchTerm)
    /\ \/ filter = "all"
       \/ filter = "gainers" /\ Change(vanryData) > 0
       \/ filter = "losers" /\ Change(vanryData) < 0

\* the displayed list without the pinned record at its head
Rest == IF PinnedQualifies THEN Tail(Shown) ELSE Shown

\* C1 as stated: whenever the displayed list holds a coin whose id is the
\* pinned id, that coin is at index 0 (position 1 of the sequence).
C1_PinnedIdAtFront ==
    \A i \in 1..Len(Shown) : Shown[i].id = PinnedId => i = 1

\* C1, amended: when the fetched pinned record itself passes the search and
\* the filter, it is the head of the displayed list and no later position
\* holds a coin with the pinned id.
C1_QualifyingPinnedAtFront ==
    PinnedQualifies =>
        /\ Shown # <<>>
        /\ Shown[1] = vanryData
        /\ \A i \in 2..Len(Shown) : Shown[i].id # PinnedId

\* the pinned record is prepended over a generic list that holds a coin with
\* the pinned id which itself passes the search and the gainers filter
C1_Witness ==
    /\ PinnedQualifies
    /\ filter = "gainers"
    /\ searchTerm # <<>>
    /\ Len(Shown) >= 2
    /\ \E j \in 2..Len(coins) :
        /\ coins[j].id = PinnedId
        /\ Change(coins[j]) > 0
        /\ MatchesSearch(coins[j], searchTerm)

\* C2 as stated: when the fetched pinned record fails the search or the
\* filter, no coin with the pinned id is in the displayed list.
C2_PinnedIdAbsent ==
    (vanryData # Null /\ ~PinnedQualifies) =>
        \A i \in 1..Len(Shown) : Shown[i].id # PinnedId

\* C2, amended: when the fetched pinned record fails the search or the
\* filter, the pinned record is not in the displayed list, and every coin
\* displayed is a coin of the generic list (a generic coin with the pinned
\* id included, when it passes on its own data).
C2_PinnedRecordAbsent ==
    (vanryData # Null /\ ~PinnedQualifies) =>
        \A i \in 1..Len(Shown) :
            /\ Shown[i] # vanryData
            /\ \E j \in 1..Len(coins) : coins[j] = Shown[i]

\* the pinned record gained and the filter is losers; the generic list
\* holds a losing coin with the pinned id, which is displayed
C2_Witness ==
    /\ vanryData # Null
    /\ Change(vanryData) > 0
    /\ filter = "losers"
    /\ ContainsIgnoringCase(vanryData.name, searchTerm)
    /\ \E i \in 1..Len(Shown) : Shown[i].id = PinnedId

\* C3: every displayed coin, the prepended pinned record included, has a
\* name or a symbol that contains the search term, case ignored.
C3_AllMatchSearch ==
    \A i \in 1..Len(Shown) :
        \/ ContainsIgnoringCase(Shown[i].name, searchTerm)
        \/ ContainsIgnoringCase(Shown[i].symbol, searchTerm)

\* an upper-case search term keeps the pinned record and a generic coin and
\* drops another generic coin
C3_Witness ==
    /\ searchTerm # <<>>
    /\ toLowerCase(searchTerm) # searchTerm
    /\ PinnedQualifies
    /\ Len(Shown) >= 2
    /\ Len(Rest) < Len(coins)

\* C4: under a directional filter the displayed list after the prepended
\* pinned record holds only coins of that direction, most extreme first
\* (non-increasing change for gainers, non-decreasing for losers), and no
\* displayed coin has a change of exactly 0.
C4_DirectionalOrder ==
    /\ filter = "gainers" =>
        /\ \A i \in 1..Len(Rest) : Change(Rest[i]) > 0
        /\ \A i, j \in 1..Len(Rest) : i < j => Change(Rest[i]) >= Change(Rest[j])
    /\ filter = "losers" =>
        /\ \A i \in 1..Len(Rest) : Change(Rest[i]) < 0
        /\ \A i, j \in 1..Len(Rest) : i < j => Change(Rest[i]) <= Change(Rest[j])
    /\ filter # "all" => \A i \in 1..Len(Shown) : Change(Shown[i]) # 0

\* gainers fetched in ascending order are displayed in descending order
\* behind the pinned record, and a coin with no change is left out
C4_Witness ==
    /\ filter = "gainers"
    /\ PinnedQualifies
    /\ Len(Rest) = 2
    /\ Change(Rest[1]) > Change(Rest[2])
    /\ \E i, j \in 1..Len(coins) :
        i < j /\ coins[i] = Rest[2] /\ coins[j] = Rest[1]
    /\ \E i \in 1..Len(coins) :
        Change(coins[i]) = 0 /\ MatchesSearch(coins[i], searchTerm)

RECURSIVE DropId(_, _)
DropId(list, id) ==
    IF list = <<>> THEN <<>>
    ELSE IF Head(list).id = id THEN DropId(Tail(list), id)
         ELSE <<Head(list)>> \o DropId(Tail(list), id)

\* C5: with an empty search term and filter "all" the displayed list is the
\* pinned record (when fetched) followed by the generic coins in fetched
\* order without the coin sharing the pinned id; with no pinned record it
\* is the generic list unchanged.
C5_NeutralMerge ==
    (searchTerm = <<>> /\ filter = "all") =>
        Shown = IF vanryData # Null
                THEN <<vanryData>> \o DropId(coins, PinnedId)
                ELSE coins

\* a fetched pinned record over a generic list whose second coin shares its id
C5_Witness ==
    /\ searchTerm = <<>>
    /\ filter = "all"
    /\ vanryData # Null
    /\ Len(coins) = 3
    /\ coins[2].id = PinnedId
    /\ Len(Shown) = 3

\* C6 as stated: once every chart request has resolved, the open detail
\* view holds the result of the request made for the selected coin (its
\* chart, or the empty list of a failed request).
C6_LatestSelectionWins ==
    (Rendered /\ selectedCoin # Null /\ InFlight = 0) =>
        chartData \in {ChartOf(selectedCoin.id), <<>>}

\* C7: loading is false, and coins or vanryData are set, only once both
\* startup requests have settled; then both results are applied together.
C7_ReadyOnlyAfterBoth ==
    /\ (~loading \/ coins # <<>> \/ vanryData # Null) =>
        /\ coinsPromise.state = "fulfilled"
        /\ vanryPromise.state = "fulfilled"
        /\ ~loading
        /\ coins = coinsPromise.value
        /\ vanryData = vanryPromise.value
    /\ fetchPhase # "done" => loading

\* both requests succeeded and the view is ready with both results
C7_Witness ==
    /\ ~loading
    /\ fetchPhase = "done"
    /\ coins # <<>>
    /\ vanryData # Null

\* C8 as stated: whatever the three requests meet, the derivation of the
\* displayed list never throws.
C8_DerivationNeverThrows == ~RenderThrows

\* C9 as stated: a chart shown in the detail view of the selected coin was
\* fetched for that coin.
C9_ChartBelongsToSelected ==
    (Rendered /\ selectedCoin # Null /\ ~detailLoading /\ chartData # <<>>) =>
        chartData = ChartOf(selectedCoin.id)

\* C10: once the startup requests settle, loading becomes false and stays
\* false, whatever the two requests met.
C10_EventuallyLoaded == <>[](loading = FALSE)

\* both startup requests failed and the loading screen is gone
C10_Witness ==
    /\ fetchPhase = "done"
    /\ ~loading
    /\ coins = <<>>
    /\ vanryData = Null

=============================================================================
